---- MODULE Spec2Model ----
(***************************************************************************)
(* excelorm (build.go): marshalling a sequence of SheetModel records into  *)
(* an excelize workbook.  One run of write() is a state machine: the       *)
(* options are resolved, the records are appended one per step, the        *)
(* declared headers of sheets without data are set, the default sheet is   *)
(* deleted and the workbook is serialized.                                 *)
(*                                                                         *)
(* Go values are modelled structurally.  A reflect.Type is                 *)
(*   [ptr |-> levels of indirection, kind |-> reflect.Kind of the base,    *)
(*    tname |-> the %T name of the base type]                              *)
(* and a reflect.Value is [typ, present, val]: present counts the non-nil  *)
(* pointer levels (present < typ.ptr: some pointer on the way is nil), val *)
(* is the base value [n, s, b].  Struct fields are exported, as            *)
(* reflect.Value.Interface requires.                                       *)
(***************************************************************************)
EXTENDS Integers, Sequences, FiniteSets, TLC

VARIABLES
    sheetModels,      \* write's argument: the records, in input order
    opts,             \* write's argument: the Option list
    options,          \* the resolved *options
    f,                \* the *excelize.File being built
    sheetLinesCount,  \* map[string]int, rows written per sheet name
    idx,              \* position of the range loop over sheetModels (1-based)
    pc,               \* where the run is
    err,              \* the error returned ("" is nil)
    out,              \* what was serialized: "none", "file" or "buffer"
    coordCol,         \* coordinatesToCellName's argument col
    coordRow,         \* coordinatesToCellName's argument row
    coordRet          \* what coordinatesToCellName returned: [name, err]

vars == <<sheetModels, opts, options, f, sheetLinesCount, idx, pc, err, out,
          coordCol, coordRow, coordRet>>

\* the call of coordinatesToCellName on its own
coordVars == <<coordCol, coordRow, coordRet>>

(* ------------------------------------------------------------------ *)
(* Bounds                                                              *)
(* ------------------------------------------------------------------ *)

\* longest input sequence of records
MaxRecords == 3

\* coordinatesToCellName is called on every column and row up to these,
\* and on the columns and rows around its limits
MaxCol == 30
MaxRow == 11

\* longest option list of the runs over the options
MaxOpts == 3

(* ------------------------------------------------------------------ *)
(* Program constants                                                   *)
(* ------------------------------------------------------------------ *)

totalRows == 1048576
minColumns == 1
maxColumns == 16384

ErrNilRow == "nil reference row append is not allowed"
ErrNoSheetName == "sheetModel must have a sheet name"
ErrNotStruct == "sheetModel must be struct"
ErrEmptyFileName == "fileName can not be empty"
ErrRowLimit == "row number exceeds maximum limit"
DefaultSheet == "Sheet1"
DefaultTimeLayout == "2006-01-02 15:04:05"

(* ------------------------------------------------------------------ *)
(* strconv: decimal rendering                                          *)
(* ------------------------------------------------------------------ *)

Digits == <<"0", "1", "2", "3", "4", "5", "6", "7", "8", "9">>

RECURSIVE FormatUint(_)
FormatUint(n) ==
    IF n < 10 THEN Digits[n + 1]
    ELSE FormatUint(n \div 10) \o Digits[(n % 10) + 1]

FormatInt(n) == IF n < 0 THEN "-" \o FormatUint(0 - n) ELSE FormatUint(n)

Itoa(n) == FormatInt(n)

\* n zero-padded to at least two digits (time.Format's "01", "02", "15", "04", "05")
Pad2(n) == IF n < 10 THEN "0" \o FormatUint(n) ELSE FormatUint(n)

RECURSIVE Zeros(_)
Zeros(k) == IF k <= 0 THEN "" ELSE "0" \o Zeros(k - 1)

(* ------------------------------------------------------------------ *)
(* Cell coordinates                                                    *)
(* ------------------------------------------------------------------ *)

ErrInvalidCellRef(col, row) ==
    "invalid cell reference [" \o Itoa(col) \o ", " \o Itoa(row) \o "]"

ErrColumnRange ==
    "the column number must be greater than or equal to " \o Itoa(minColumns)
        \o " and less than or equal to " \o Itoa(maxColumns)

Letters == <<"A", "B", "C", "D", "E", "F", "G", "H", "I", "J", "K", "L", "M",
             "N", "O", "P", "Q", "R", "S", "T", "U", "V", "W", "X", "Y", "Z">>

\* string(rune(c)) for c in 65..90
Chr(c) == Letters[c - 64]

\* ColumnLoop with the digits 0..25 of plain base 26
RECURSIVE ColumnLoopZeroBased(_, _)
ColumnLoopZeroBased(num, col) ==
    IF num > 0 THEN ColumnLoopZeroBased(num \div 26, Chr((num % 26) + 65) \o col)
    ELSE col

RECURSIVE ColumnLoop(_, _)
ColumnLoop(num, col) ==
    IF num > 0 THEN ColumnLoop((num - 1) \div 26, Chr(((num - 1) % 26) + 65) \o col)
    ELSE col

columnNumberToName(num) ==
    IF num < minColumns \/ num > maxColumns
    THEN [name |-> "", err |-> ErrColumnRange]
    ELSE [name |-> ColumnLoop(num, ""), err |-> ""]

coordinatesToCellName(col, row) ==
    IF col < 1 \/ row < 1 THEN [name |-> "", err |-> ErrInvalidCellRef(col, row)]
    ELSE IF row > totalRows THEN [name |-> "", err |-> ErrRowLimit]
    ELSE LET c == columnNumberToName(col)
         IN [name |-> c.name \o Itoa(row), err |-> c.err]

(* ------------------------------------------------------------------ *)
(* strconv.FormatFloat and time.Time.Format                            *)
(* A float is held in tenths (n = 11 is 1.1), which float32 and        *)
(* float64 both render exactly at the precisions 0..2 used here.       *)
(* ------------------------------------------------------------------ *)

\* |n| / 10 rounded to an integer, ties to even (x.5 is exact in binary)
RoundTenths(m) ==
    LET q == m \div 10
        r == m % 10
    IN IF r > 5 \/ (r = 5 /\ q % 2 = 1) THEN q + 1 ELSE q

RECURSIVE Pow10(_)
Pow10(k) == IF k <= 0 THEN 1 ELSE 10 * Pow10(k - 1)

RECURSIVE NumDigits(_)
NumDigits(m) == IF m < 10 THEN 1 ELSE 1 + NumDigits(m \div 10)

\* m (> 0, k digits) rounded to w significant digits, ties to even:
\* [q |-> the w digits as a number, carry |-> 1 when rounding gave 10^w]
RoundSig(m, k, w) ==
    IF k <= w THEN [q |-> m * Pow10(w - k), carry |-> 0]
    ELSE LET p == Pow10(k - w)
             q == m \div p
             r == m % p
             up == (2 * r > p) \/ (2 * r = p /\ q % 2 = 1)
             q1 == IF up THEN q + 1 ELSE q
         IN IF q1 = Pow10(w) THEN [q |-> Pow10(w - 1), carry |-> 1]
            ELSE [q |-> q1, carry |-> 0]

\* the 'f' format: -ddd.ddd
FormatFixed(n, prec) ==
    LET m == IF n < 0 THEN 0 - n ELSE n
        sign == IF n < 0 THEN "-" ELSE ""
    IN IF prec = 0 THEN sign \o FormatUint(RoundTenths(m))
       ELSE sign \o FormatUint(m \div 10) \o "." \o Digits[(m % 10) + 1] \o Zeros(prec - 1)

\* the 'e' format: -d.ddde+dd
FormatExp(n, prec) ==
    LET m == IF n < 0 THEN 0 - n ELSE n
        sign == IF n < 0 THEN "-" ELSE ""
        k == NumDigits(m)
        r == IF m = 0 THEN [q |-> 0, carry |-> 0] ELSE RoundSig(m, k, prec + 1)
        e == IF m = 0 THEN 0 ELSE (k - 2) + r.carry
        lead == r.q \div Pow10(prec)
        rest == r.q % Pow10(prec)
        frac == IF prec = 0 THEN ""
                ELSE "." \o Zeros(prec - NumDigits(rest)) \o FormatUint(rest)
        esign == IF e < 0 THEN "-" ELSE "+"
    IN sign \o Digits[lead + 1] \o frac \o "e" \o esign \o Pad2(IF e < 0 THEN 0 - e ELSE e)

\* strconv.FormatFloat(v, fmt, prec, bitSize) for fmt 'f' and 'e'
FormatFloat(n, fmt, prec) ==
    IF fmt = "e" THEN FormatExp(n, prec) ELSE FormatFixed(n, prec)

ZeroTime == [Y |-> 1, Mo |-> 1, D |-> 1, h |-> 0, mi |-> 0, s |-> 0]

Pad4(n) == Zeros(4 - NumDigits(n)) \o FormatUint(n)

\* the layouts of the runs, split into the reference-time elements
\* time.Format recognises and the literal text between them
LayoutElems(layout) ==
    CASE layout = "2006-01-02 15:04:05" ->
            <<"2006", "-", "01", "-", "02", " ", "15", ":", "04", ":", "05">>
      [] layout = "2006/01/02 15:04:05" ->
            <<"2006", "/", "01", "/", "02", " ", "15", ":", "04", ":", "05">>
      [] layout = "15:04" -> <<"15", ":", "04">>
      [] OTHER -> <<layout>>

FormatElem(e, t) ==
    CASE e = "2006" -> Pad4(t.Y)
      [] e = "01" -> Pad2(t.Mo)
      [] e = "02" -> Pad2(t.D)
      [] e = "15" -> Pad2(t.h)
      [] e = "04" -> Pad2(t.mi)
      [] e = "05" -> Pad2(t.s)
      [] OTHER -> e

RECURSIVE FormatElems(_, _)
FormatElems(es, t) ==
    IF es = <<>> THEN "" ELSE FormatElem(Head(es), t) \o FormatElems(Tail(es), t)

\* t.Format(layout)
TimeFormat(t, layout) == FormatElems(LayoutElems(layout), t)

(* ------------------------------------------------------------------ *)
(* reflect: types and values                                           *)
(* ------------------------------------------------------------------ *)

Ty(ptr, kind, tname) == [ptr |-> ptr, kind |-> kind, tname |-> tname]

\* a predeclared type is named after its kind
Basic(kind) == Ty(0, kind, kind)
PtrTo(t) == [t EXCEPT !.ptr = @ + 1]
TimeType == Ty(0, "struct", "time.Time")

\* reflect.Type.Kind
TypeKind(t) == IF t.ptr > 0 THEN "ptr" ELSE t.kind

NoVal == [n |-> 0, s |-> "", b |-> FALSE, t |-> ZeroTime]
IntVal(n) == [NoVal EXCEPT !.n = n]
StrVal(s) == [NoVal EXCEPT !.s = s]
BoolVal(b) == [NoVal EXCEPT !.b = b]
TimeVal(t) == [NoVal EXCEPT !.t = t]

\* a value of type typ: a plain value or a chain of non-nil pointers to one
Val(typ, val) == [typ |-> typ, present |-> typ.ptr, val |-> val]
\* a value of pointer type typ whose first `present` pointers are non-nil
\* and whose next pointer is nil
NilAt(typ, present) == [typ |-> typ, present |-> present, val |-> NoVal]

\* reflect.Value.Kind
ValueKind(v) == TypeKind(v.typ)

\* v.Elem().CanAddr() of a pointer: Elem of a nil pointer is the zero
\* Value (not addressable), Elem of a non-nil pointer is addressable
ElemCanAddr(v) == v.present > 0

\* reflect.Indirect(v) of a non-nil pointer
Indirect(v) == [v EXCEPT !.typ = [@ EXCEPT !.ptr = @ - 1], !.present = @ - 1]

(* ------------------------------------------------------------------ *)
(* Cell values handed to SetCellValue (an interface{}): the dynamic    *)
(* type and the value                                                  *)
(* ------------------------------------------------------------------ *)

StringCell(s) == [t |-> "string", n |-> 0, s |-> s, b |-> FALSE]
\* fieldValue.Interface() of a number, string or bool
NativeCell(v) == [t |-> v.typ.tname, n |-> v.val.n, s |-> v.val.s, b |-> v.val.b]

(* ------------------------------------------------------------------ *)
(* options                                                             *)
(* ------------------------------------------------------------------ *)

NilString == [nil |-> TRUE, s |-> ""]
StringPtr(s) == [nil |-> FALSE, s |-> s]

\* DefaultOptions with every field at its zero value
DefaultOptionsZeroValue ==
    [timeFormatLayout |-> "",
     floatPrecision   |-> 0,
     floatFmt         |-> "",
     ifNullValue      |-> "",
     sheetHeaders     |-> <<>>,
     trueValue        |-> NilString,
     falseValue       |-> NilString,
     integerAsString  |-> FALSE,
     headless         |-> FALSE]

\* write's default options (the fields not listed hold their zero value)
DefaultOptions ==
    [timeFormatLayout |-> DefaultTimeLayout,
     floatPrecision   |-> 2,
     floatFmt         |-> "f",
     ifNullValue      |-> "",
     sheetHeaders     |-> <<>>,
     trueValue        |-> NilString,
     falseValue       |-> NilString,
     integerAsString  |-> FALSE,
     headless         |-> FALSE]

\* an Option closure: its constructor and the arguments it captured
Opt(op, s, s2, n, hs) == [op |-> op, s |-> s, s2 |-> s2, n |-> n, hs |-> hs]
WithTimeFormatLayout(layout) == Opt("WithTimeFormatLayout", layout, "", 0, <<>>)
WithFloatPrecision(precision) == Opt("WithFloatPrecision", "", "", precision, <<>>)
WithFloatFmt(fmt) == Opt("WithFloatFmt", fmt, "", 0, <<>>)
WithIfNullValue(value) == Opt("WithIfNullValue", value, "", 0, <<>>)
WithSheetHeaders(headers) == Opt("WithSheetHeaders", "", "", 0, headers)
WithBoolValueAs(trueValue, falseValue) == Opt("WithBoolValueAs", trueValue, falseValue, 0, <<>>)
WithIntegerAsString == Opt("WithIntegerAsString", "", "", 0, <<>>)
WithHeadless == Opt("WithHeadless", "", "", 0, <<>>)

\* opt(options)
ApplyOption(opt, o) ==
    CASE opt.op = "WithTimeFormatLayout" -> [o EXCEPT !.timeFormatLayout = opt.s]
      [] opt.op = "WithFloatPrecision" -> [o EXCEPT !.floatPrecision = opt.n]
      [] opt.op = "WithFloatFmt" -> [o EXCEPT !.floatFmt = opt.s]
      [] opt.op = "WithIfNullValue" -> [o EXCEPT !.ifNullValue = opt.s]
      [] opt.op = "WithSheetHeaders" -> [o EXCEPT !.sheetHeaders = opt.hs]
      [] opt.op = "WithBoolValueAs" ->
            [o EXCEPT !.trueValue = StringPtr(opt.s), !.falseValue = StringPtr(opt.s2)]
      [] opt.op = "WithIntegerAsString" -> [o EXCEPT !.integerAsString = TRUE]
      [] opt.op = "WithHeadless" -> [o EXCEPT !.headless = TRUE]

\* ApplyOptions from the last option to the first
RECURSIVE ApplyOptionsReversed(_, _)
ApplyOptionsReversed(os, o) ==
    IF os = <<>> THEN o ELSE ApplyOption(Head(os), ApplyOptionsReversed(Tail(os), o))

\* for _, opt := range opts { opt(options) }
RECURSIVE ApplyOptions(_, _)
ApplyOptions(os, o) ==
    IF os = <<>> THEN o ELSE ApplyOptions(Tail(os), ApplyOption(Head(os), o))

(* ------------------------------------------------------------------ *)
(* The excelize.File the engine writes through: the sheets, the cells  *)
(* set so far, the names NewSheet / DeleteSheet were called with, and   *)
(* the NewSheet calls and the SetCellValue calls made, in order        *)
(* ------------------------------------------------------------------ *)

\* excelize.NewFile(): one empty sheet, "Sheet1"
NewFile ==
    [sheets |-> {DefaultSheet}, cells |-> {}, created |-> {}, deleted |-> {}, calls |-> <<>>,
     newSheetCalls |-> <<>>]

\* f.GetSheetIndex(name) != 0
HasSheet(file, name) == name \in file.sheets

NewSheet(file, name) ==
    [file EXCEPT !.sheets = @ \cup {name}, !.created = @ \cup {name},
                 !.newSheetCalls = Append(@, name)]

\* a cell of the file: the sheet, the address ("B2") and the value set
SetCellValue(file, sheet, axis, value) ==
    [file EXCEPT !.cells =
        {c \in @ : ~(c.sheet = sheet /\ c.axis = axis)}
            \cup {[sheet |-> sheet, axis |-> axis, v |-> value]},
                 !.calls = Append(@, [sheet |-> sheet, axis |-> axis, v |-> value])]

DeleteSheet(file, name) ==
    [file EXCEPT !.sheets = @ \ {name},
                 !.cells = {c \in @ : c.sheet # name},
                 !.deleted = @ \cup {name}]

(* ------------------------------------------------------------------ *)
(* Sheet models: the records handed to write                           *)
(*   shape  "nil" (a nil interface), "struct", "ptr" (a non-nil        *)
(*          pointer to a struct), "nilptr" (a nil pointer whose type   *)
(*          has a pointer-receiver SheetName) or "int" (a named int)   *)
(*   sheet  what SheetName() returns                                   *)
(*   fields the struct's fields [name, tag, typ], in declared order    *)
(*   vals   the fields' values                                         *)
(* ------------------------------------------------------------------ *)

Field(name, tag, typ) == [name |-> name, tag |-> tag, typ |-> typ]

Model(shape, sheet, fields, vals) ==
    [shape |-> shape, sheet |-> sheet, fields |-> fields, vals |-> vals]

NilModel == Model("nil", "", <<>>, <<>>)

\* ModelKind that looks through a non-nil pointer
ModelKindOfPointee(m) ==
    CASE m.shape \in {"struct", "ptr"} -> "struct"
      [] m.shape = "nilptr" -> "ptr"
      [] OTHER -> m.shape

\* reflect.TypeOf(sheetModel).Kind()
ModelKind(m) ==
    CASE m.shape = "struct" -> "struct"
      [] m.shape \in {"ptr", "nilptr"} -> "ptr"
      [] OTHER -> m.shape

(* ------------------------------------------------------------------ *)
(* appendRow: the conversion of one field (the switch at unAddrTo)      *)
(* ------------------------------------------------------------------ *)

SwitchKinds ==
    {"struct", "uint", "uint8", "uint16", "uint32", "uint64", "string", "bool",
     "int", "int8", "int16", "int32", "int64", "float32", "float64"}

ErrorKinds ==
    {"map", "slice", "array", "chan", "func", "interface", "invalid",
     "unsafe.Pointer", "complex64", "complex128", "uintptr"}

SetCell(cell, jumps) == [act |-> "set", cell |-> cell, err |-> "", jumps |-> jumps]
FieldError(msg, jumps) == [act |-> "err", cell |-> StringCell(""), err |-> msg, jumps |-> jumps]
NoCase(jumps) == [act |-> "none", cell |-> StringCell(""), err |-> "", jumps |-> jumps]

\* IntCase that ignores options.integerAsString
IntCaseNative(fieldValue, o) == NativeCell(fieldValue)

\* case int, int8, int16, int32, int64
IntCase(fieldValue, o) ==
    IF o.integerAsString THEN StringCell(FormatInt(fieldValue.val.n))
    ELSE NativeCell(fieldValue)

\* case uint, uint8, uint16, uint32, uint64
UintCase(fieldValue, o) ==
    IF o.integerAsString THEN StringCell(FormatUint(fieldValue.val.n))
    ELSE NativeCell(fieldValue)

\* BoolCase without the falseValue branch
BoolCaseTrueOnly(fieldValue, o) ==
    IF ~o.trueValue.nil /\ fieldValue.val.b THEN StringCell(o.trueValue.s)
    ELSE NativeCell(fieldValue)

\* case bool
BoolCase(fieldValue, o) ==
    LET b == fieldValue.val.b
    IN IF ~o.trueValue.nil /\ b THEN StringCell(o.trueValue.s)
       ELSE IF ~o.falseValue.nil /\ ~b THEN StringCell(o.falseValue.s)
       ELSE NativeCell(fieldValue)

\* TypeSwitch on the kind of the value instead of its dynamic type
TypeSwitchByKind(fieldValue, o, jumps) ==
    LET k == fieldValue.typ.kind
    IN CASE k \in {"int", "int8", "int16", "int32", "int64"} ->
                SetCell(IntCase(fieldValue, o), jumps)
         [] k \in {"uint", "uint8", "uint16", "uint32", "uint64"} ->
                SetCell(UintCase(fieldValue, o), jumps)
         [] k = "string" -> SetCell(NativeCell(fieldValue), jumps)
         [] k = "bool" -> SetCell(BoolCase(fieldValue, o), jumps)
         [] k \in {"float32", "float64"} ->
                SetCell(StringCell(FormatFloat(fieldValue.val.n, o.floatFmt, o.floatPrecision)), jumps)
         [] fieldValue.typ.tname = "time.Time" ->
                SetCell(StringCell(TimeFormat(fieldValue.val.t, o.timeFormatLayout)), jumps)
         [] OTHER -> FieldError("unsupported type " \o fieldValue.typ.tname, jumps)

\* switch value.(type): the dynamic type of fieldValue.Interface()
TypeSwitch(fieldValue, o, jumps) ==
    LET t == fieldValue.typ.tname
    IN CASE t \in {"int", "int8", "int16", "int32", "int64"} ->
                SetCell(IntCase(fieldValue, o), jumps)
         [] t \in {"uint", "uint8", "uint16", "uint32", "uint64"} ->
                SetCell(UintCase(fieldValue, o), jumps)
         [] t = "string" -> SetCell(NativeCell(fieldValue), jumps)
         [] t = "bool" -> SetCell(BoolCase(fieldValue, o), jumps)
         [] t \in {"float32", "float64"} ->
                SetCell(StringCell(FormatFloat(fieldValue.val.n, o.floatFmt, o.floatPrecision)), jumps)
         [] t = "time.Time" ->
                SetCell(StringCell(TimeFormat(fieldValue.val.t, o.timeFormatLayout)), jumps)
         [] OTHER -> FieldError("unsupported type " \o t, jumps)

\* Dispatch without the case of the unsupported kinds
RECURSIVE DispatchNoErrorCase(_, _, _, _)
DispatchNoErrorCase(fieldKind, fieldValue, o, jumps) ==
    IF fieldKind = "ptr" THEN
        IF ~ElemCanAddr(fieldValue) THEN SetCell(StringCell(o.ifNullValue), jumps)
        ELSE LET v == Indirect(fieldValue)
             IN DispatchNoErrorCase(ValueKind(v), v, o, jumps + 1)
    ELSE IF fieldKind \in SwitchKinds THEN TypeSwitch(fieldValue, o, jumps)
    ELSE NoCase(jumps)

\* Dispatch that writes "" for a nil pointer whatever options.ifNullValue is
RECURSIVE DispatchNilAsEmpty(_, _, _, _)
DispatchNilAsEmpty(fieldKind, fieldValue, o, jumps) ==
    IF fieldKind = "ptr" THEN
        IF ~ElemCanAddr(fieldValue) THEN SetCell(StringCell(""), jumps)
        ELSE LET v == Indirect(fieldValue)
             IN DispatchNilAsEmpty(ValueKind(v), v, o, jumps + 1)
    ELSE IF fieldKind \in SwitchKinds THEN TypeSwitch(fieldValue, o, jumps)
    ELSE IF fieldKind \in ErrorKinds THEN FieldError("unsupported type " \o fieldKind, jumps)
    ELSE NoCase(jumps)

\* Dispatch that writes the pointed-to value as it is instead of jumping
\* back to the switch
DispatchDerefNative(fieldKind, fieldValue, o, jumps) ==
    IF fieldKind = "ptr" THEN
        IF ~ElemCanAddr(fieldValue) THEN SetCell(StringCell(o.ifNullValue), jumps)
        ELSE SetCell(NativeCell(Indirect(fieldValue)), jumps)
    ELSE IF fieldKind \in SwitchKinds THEN TypeSwitch(fieldValue, o, jumps)
    ELSE IF fieldKind \in ErrorKinds THEN FieldError("unsupported type " \o fieldKind, jumps)
    ELSE NoCase(jumps)

\* Dispatch that rejects a pointer to an unsupported kind by its declared
\* type, nil or not
RECURSIVE DispatchDeclaredTypeFirst(_, _, _, _)
DispatchDeclaredTypeFirst(fieldKind, fieldValue, o, jumps) ==
    IF fieldKind = "ptr" THEN
        IF fieldValue.typ.kind \in ErrorKinds
        THEN FieldError("unsupported type " \o fieldValue.typ.kind, jumps)
        ELSE IF ~ElemCanAddr(fieldValue) THEN SetCell(StringCell(o.ifNullValue), jumps)
        ELSE LET v == Indirect(fieldValue)
             IN DispatchDeclaredTypeFirst(ValueKind(v), v, o, jumps + 1)
    ELSE IF fieldKind \in SwitchKinds THEN TypeSwitch(fieldValue, o, jumps)
    ELSE IF fieldKind \in ErrorKinds THEN FieldError("unsupported type " \o fieldKind, jumps)
    ELSE NoCase(jumps)

\* Dispatch that can take the goto once only: a pointer found after the
\* jump matches no case
DispatchOneJump(fieldKind, fieldValue, o, jumps) ==
    IF fieldKind = "ptr" THEN
        IF ~ElemCanAddr(fieldValue) THEN SetCell(StringCell(o.ifNullValue), jumps)
        ELSE LET v == Indirect(fieldValue)
             IN IF ValueKind(v) \in SwitchKinds THEN TypeSwitch(v, o, jumps + 1)
                ELSE IF ValueKind(v) \in ErrorKinds
                THEN FieldError("unsupported type " \o ValueKind(v), jumps + 1)
                ELSE NoCase(jumps + 1)
    ELSE IF fieldKind \in SwitchKinds THEN TypeSwitch(fieldValue, o, jumps)
    ELSE IF fieldKind \in ErrorKinds THEN FieldError("unsupported type " \o fieldKind, jumps)
    ELSE NoCase(jumps)

\* unAddrTo: switch fieldKind; jumps counts the goto unAddrTo taken
RECURSIVE Dispatch(_, _, _, _)
Dispatch(fieldKind, fieldValue, o, jumps) ==
    IF fieldKind = "ptr" THEN
        IF ~ElemCanAddr(fieldValue) THEN SetCell(StringCell(o.ifNullValue), jumps)
        ELSE LET v == Indirect(fieldValue)
             IN Dispatch(ValueKind(v), v, o, jumps + 1)
    ELSE IF fieldKind \in SwitchKinds THEN TypeSwitch(fieldValue, o, jumps)
    ELSE IF fieldKind \in ErrorKinds THEN FieldError("unsupported type " \o fieldKind, jumps)
    ELSE NoCase(jumps)

\* the conversion of field i of sheetModel: kind from the declared type
ConvertField(sheetModel, i, o) ==
    Dispatch(TypeKind(sheetModel.fields[i].typ), sheetModel.vals[i], o, 0)

(* ------------------------------------------------------------------ *)
(* appendRow                                                           *)
(* ------------------------------------------------------------------ *)

Ret(file, e) == [f |-> file, err |-> e]

\* HeaderText that ignores the excel_header tag
HeaderTextNameOnly(field) == field.name

\* the header text of a field in appendRow: the tag, or the name without one
HeaderText(field) == IF field.tag = "" THEN field.name ELSE field.tag

\* for i := 0; i < NumField; i++ { ... SetCellValue(sheetName, cellName, header) }
\* (i is 1-based here: the column)
RECURSIVE HeaderLoop(_, _, _, _)
HeaderLoop(file, sheetName, fields, i) ==
    IF i > Len(fields) THEN Ret(file, "")
    ELSE LET c == coordinatesToCellName(i, 1)
         IN IF c.err # "" THEN Ret(file, c.err)
            ELSE HeaderLoop(SetCellValue(file, sheetName, c.name, StringCell(HeaderText(fields[i]))),
                            sheetName, fields, i + 1)

\* DataLoop that fills the columns from the last one to the first
RECURSIVE DataLoopReversedColumns(_, _, _, _, _, _)
DataLoopReversedColumns(file, sheetName, sheetModel, line, o, i) ==
    IF i > Len(sheetModel.fields) THEN Ret(file, "")
    ELSE LET c == coordinatesToCellName(Len(sheetModel.fields) - i + 1, line)
         IN IF c.err # "" THEN Ret(file, c.err)
            ELSE LET r == ConvertField(sheetModel, i, o)
                 IN CASE r.act = "err" -> Ret(file, r.err)
                      [] r.act = "set" ->
                            DataLoopReversedColumns(SetCellValue(file, sheetName, c.name, r.cell),
                                                    sheetName, sheetModel, line, o, i + 1)
                      [] OTHER -> DataLoopReversedColumns(file, sheetName, sheetModel, line, o, i + 1)

\* the data loop over the fields
RECURSIVE DataLoop(_, _, _, _, _, _)
DataLoop(file, sheetName, sheetModel, line, o, i) ==
    IF i > Len(sheetModel.fields) THEN Ret(file, "")
    ELSE LET c == coordinatesToCellName(i, line)
         IN IF c.err # "" THEN Ret(file, c.err)
            ELSE LET r == ConvertField(sheetModel, i, o)
                 IN CASE r.act = "err" -> Ret(file, r.err)
                      [] r.act = "set" ->
                            DataLoop(SetCellValue(file, sheetName, c.name, r.cell),
                                     sheetName, sheetModel, line, o, i + 1)
                      [] OTHER -> DataLoop(file, sheetName, sheetModel, line, o, i + 1)

\* AppendRowCells that writes the header whatever options.headless is
AppendRowCellsAlwaysHeader(file, sheetName, sheetModel, line, o) ==
    LET line1 == line + 1
    IN IF line1 = 1
       THEN LET h == HeaderLoop(file, sheetName, sheetModel.fields, 1)
            IN IF h.err # "" THEN h
               ELSE DataLoop(h.f, sheetName, sheetModel, line1 + 1, o, 1)
       ELSE DataLoop(file, sheetName, sheetModel, line1, o, 1)

\* AppendRowCells that writes the header with every record
AppendRowCellsHeaderEveryRecord(file, sheetName, sheetModel, line, o) ==
    LET line1 == line + 1
    IN IF ~o.headless
       THEN LET h == HeaderLoop(file, sheetName, sheetModel.fields, 1)
            IN IF h.err # "" THEN h
               ELSE DataLoop(h.f, sheetName, sheetModel, IF line1 = 1 THEN 2 ELSE line1, o, 1)
       ELSE DataLoop(file, sheetName, sheetModel, line1, o, 1)

\* the rows of appendRow once sheetModel is a struct value
AppendRowCells(file, sheetName, sheetModel, line, o) ==
    LET line1 == line + 1
    IN IF line1 = 1 /\ ~o.headless
       THEN LET h == HeaderLoop(file, sheetName, sheetModel.fields, 1)
            IN IF h.err # "" THEN h
               ELSE DataLoop(h.f, sheetName, sheetModel, line1 + 1, o, 1)
       ELSE DataLoop(file, sheetName, sheetModel, line1, o, 1)

appendRow(file, sheetModel, line, o) ==
    LET sheetName == sheetModel.sheet
        f1 == IF ~HasSheet(file, sheetName) THEN NewSheet(file, sheetName) ELSE file
    IN IF ModelKind(sheetModel) = "ptr" /\ sheetModel.shape = "nilptr"
       THEN Ret(f1, ErrNilRow)
       ELSE AppendRowCells(f1, sheetName, sheetModel, line, o)

(* ------------------------------------------------------------------ *)
(* setNoDataSheetHeaders                                               *)
(* ------------------------------------------------------------------ *)

\* the header loop of setNoDataSheetHeaders: a "-" tag skips the field
RECURSIVE NoDataHeaderLoop(_, _, _, _)
NoDataHeaderLoop(file, sheetName, fields, i) ==
    IF i > Len(fields) THEN Ret(file, "")
    ELSE IF fields[i].tag = "-" THEN NoDataHeaderLoop(file, sheetName, fields, i + 1)
    ELSE LET c == coordinatesToCellName(i, 1)
         IN IF c.err # "" THEN Ret(file, c.err)
            ELSE NoDataHeaderLoop(
                    SetCellValue(file, sheetName, c.name, StringCell(HeaderText(fields[i]))),
                    sheetName, fields, i + 1)

\* NoDataModelsLoop without the skip of the sheets that exist
RECURSIVE NoDataModelsLoopNoSkip(_, _)
NoDataModelsLoopNoSkip(file, models) ==
    IF models = <<>> THEN Ret(file, "")
    ELSE LET model == Head(models)
             sheetName == model.sheet
             f1 == NewSheet(file, sheetName)
         IN IF ModelKind(model) = "ptr" /\ model.shape = "nilptr"
            THEN Ret(f1, ErrNilRow)
            ELSE LET h == NoDataHeaderLoop(f1, sheetName, model.fields, 1)
                 IN IF h.err # "" THEN h
                    ELSE NoDataModelsLoopNoSkip(h.f, Tail(models))

\* for _, model := range models { ... }
RECURSIVE NoDataModelsLoop(_, _)
NoDataModelsLoop(file, models) ==
    IF models = <<>> THEN Ret(file, "")
    ELSE LET model == Head(models)
             sheetName == model.sheet
         IN IF HasSheet(file, sheetName) THEN NoDataModelsLoop(file, Tail(models))
            ELSE LET f1 == NewSheet(file, sheetName)
                 IN IF ModelKind(model) = "ptr" /\ model.shape = "nilptr"
                    THEN Ret(f1, ErrNilRow)
                    ELSE LET h == NoDataHeaderLoop(f1, sheetName, model.fields, 1)
                         IN IF h.err # "" THEN h
                            ELSE NoDataModelsLoop(h.f, Tail(models))

setNoDataSheetHeaders(file, o) ==
    IF Len(o.sheetHeaders) = 0 THEN Ret(file, "")
    ELSE NoDataModelsLoop(file, o.sheetHeaders)

(* ------------------------------------------------------------------ *)
(* write                                                               *)
(* ------------------------------------------------------------------ *)

\* sheetLinesCount[sheetName] of a Go map: 0 for a missing key
Count(count, sheetName) == IF sheetName \in DOMAIN count THEN count[sheetName] ELSE 0

Step(file, count, e) == [f |-> file, count |-> count, err |-> e]

\* Counted without the second increment for the header row
CountedOnce(count, sheetName, l, o) == (sheetName :> (l + 1)) @@ count

\* Counted that counts a header row in headless runs as well
CountedIgnoringHeadless(count, sheetName, l, o) ==
    (sheetName :> (IF l = 0 THEN l + 2 ELSE l + 1)) @@ count

\* the counter after a record was appended at l
Counted(count, sheetName, l, o) ==
    LET once == l + 1
    IN (sheetName :> (IF l = 0 /\ ~o.headless THEN once + 1 ELSE once)) @@ count

\* RangeBody without the check of the sheet name
RangeBodyNoNameCheck(file, count, sheetModel, o) ==
    IF sheetModel.shape = "nil" THEN Step(file, count, ErrNilRow)
    ELSE IF ModelKind(sheetModel) = "struct"
    THEN LET l == Count(count, sheetModel.sheet)
             r == appendRow(file, sheetModel, l, o)
         IN IF r.err # "" THEN Step(r.f, count, r.err)
            ELSE Step(r.f, Counted(count, sheetModel.sheet, l, o), "")
    ELSE Step(file, count, ErrNotStruct)

\* RangeBody that checks the sheet name before the nil record
RangeBodyNameCheckFirst(file, count, sheetModel, o) ==
    IF sheetModel.sheet = "" THEN Step(file, count, ErrNoSheetName)
    ELSE IF sheetModel.shape = "nil" THEN Step(file, count, ErrNilRow)
    ELSE IF ModelKind(sheetModel) = "struct"
    THEN LET l == Count(count, sheetModel.sheet)
             r == appendRow(file, sheetModel, l, o)
         IN IF r.err # "" THEN Step(r.f, count, r.err)
            ELSE Step(r.f, Counted(count, sheetModel.sheet, l, o), "")
    ELSE Step(file, count, ErrNotStruct)

\* RangeBody that hands pointers to appendRow as well
RangeBodyPointersToo(file, count, sheetModel, o) ==
    IF sheetModel.shape = "nil" THEN Step(file, count, ErrNilRow)
    ELSE IF sheetModel.sheet = "" THEN Step(file, count, ErrNoSheetName)
    ELSE IF ModelKind(sheetModel) \in {"struct", "ptr"}
    THEN LET l == Count(count, sheetModel.sheet)
             r == appendRow(file, sheetModel, l, o)
         IN IF r.err # "" THEN Step(r.f, count, r.err)
            ELSE Step(r.f, Counted(count, sheetModel.sheet, l, o), "")
    ELSE Step(file, count, ErrNotStruct)

\* the body of the range loop over sheetModels
RangeBody(file, count, sheetModel, o) ==
    IF sheetModel.shape = "nil" THEN Step(file, count, ErrNilRow)
    ELSE IF sheetModel.sheet = "" THEN Step(file, count, ErrNoSheetName)
    ELSE IF ModelKind(sheetModel) = "struct"
    THEN LET l == Count(count, sheetModel.sheet)
             r == appendRow(file, sheetModel, l, o)
         IN IF r.err # "" THEN Step(r.f, count, r.err)
            ELSE Step(r.f, Counted(count, sheetModel.sheet, l, o), "")
    ELSE Step(file, count, ErrNotStruct)

\* ContainsSheet1 without the loop over options.sheetHeaders
ContainsSheet1RecordsOnly(models, headers) ==
    \E i \in 1..Len(models) : models[i].sheet = DefaultSheet

\* containsModelSheetNameEqSheet1
ContainsSheet1(models, headers) ==
    \/ \E i \in 1..Len(models) : models[i].sheet = DefaultSheet
    \/ \E i \in 1..Len(headers) : headers[i].sheet = DefaultSheet

\* the deletion of the default sheet
DeleteDefault(file, models, o) ==
    IF ~ContainsSheet1(models, o.sheetHeaders) THEN DeleteSheet(file, DefaultSheet) ELSE file

(* ------------------------------------------------------------------ *)
(* Inputs of the runs                                                  *)
(* ------------------------------------------------------------------ *)

\* type Foo struct { ID int64 `excel_header:"id"`; Name *string }, sheet "foo"
FooFields == <<Field("ID", "id", Basic("int64")), Field("Name", "", PtrTo(Basic("string")))>>
Foo(id, name) == Model("struct", "foo", FooFields, <<Val(Basic("int64"), IntVal(id)), name>>)
NilName == NilAt(PtrTo(Basic("string")), 0)
Name(str) == Val(PtrTo(Basic("string")), StrVal(str))

\* a second struct type with the same sheet name
BarFields == <<Field("Flag", "flag", Basic("bool"))>>
Bar(b) == Model("struct", "foo", BarFields, <<Val(Basic("bool"), BoolVal(b))>>)

\* a struct type whose sheet is the workbook's default sheet; Col1 is tagged "-"
DefFields == <<Field("Col1", "-", Basic("string")), Field("Col2", "int", Basic("int"))>>
Def(str, n) ==
    Model("struct", DefaultSheet, DefFields,
          <<Val(Basic("string"), StrVal(str)), Val(Basic("int"), IntVal(n))>>)

\* build_test.go: Sheet3 (SheetName is ""), Sheet4 (a named int), Sheet6 (a map field)
Sheet3 == Model("struct", "", <<Field("Col1", "string", Basic("string"))>>,
                <<Val(Basic("string"), StrVal("string"))>>)
Sheet4 == Model("int", "sheet4", <<>>, <<>>)
MapType == Ty(0, "map", "map[string]string")
Sheet6 == Model("struct", "sheet6",
                <<Field("Col0", "n", Basic("uint8")), Field("Col1", "map", MapType)>>,
                <<Val(Basic("uint8"), IntVal(255)), Val(MapType, NoVal)>>)

\* &Foo{...}: a record in pointer form
PtrFoo == [Foo(2, NilName) EXCEPT !.shape = "ptr"]

\* a prototype-only struct type, and a nil *T whose SheetName has a pointer receiver
OnlyFields ==
    <<Field("A", "a", Basic("string")), Field("B", "-", Basic("int")), Field("C", "", Basic("bool"))>>
Only == Model("struct", "only", OnlyFields,
              <<Val(Basic("string"), NoVal), Val(Basic("int"), NoVal), Val(Basic("bool"), NoVal)>>)
NilPtrProto == Model("nilptr", "np", OnlyFields, <<>>)

Records ==
    {Foo(1, NilName), Foo(-7, Name("x")), Bar(TRUE), Def("s", 5),
     Sheet3, Sheet4, Sheet6, PtrFoo, NilModel}

RecordSeqs == UNION {[1..n -> Records] : n \in 0..MaxRecords}

OptLists ==
    {<<>>,
     <<WithHeadless>>,
     <<WithSheetHeaders(<<Only, PtrFoo>>)>>,
     <<WithHeadless, WithSheetHeaders(<<Only, PtrFoo>>)>>,
     <<WithSheetHeaders(<<Def("", 0)>>)>>,
     <<WithSheetHeaders(<<Sheet3>>), WithIfNullValue("-")>>,
     <<WithSheetHeaders(<<NilPtrProto>>)>>,
     <<WithSheetHeaders(<<Def("", 0)>>), WithSheetHeaders(<<Only>>)>>,
     <<WithIfNullValue("-"), WithIntegerAsString, WithBoolValueAs("yes", "no")>>}

(* ------------------------------------------------------------------ *)
(* The run: WriteExcelSaveAs / WriteExcelAsBytesBuffer                 *)
(* ------------------------------------------------------------------ *)

\* coordRet before coordinatesToCellName is called
NoCell == [name |-> "", err |-> ""]

TypeOK ==
    /\ pc \in {"start", "records", "delete", "returned", "done", "failed", "coord", "coorddone"}
    /\ idx \in 1..(Len(sheetModels) + 1)
    /\ out \in {"none", "file", "buffer"}

Init ==
    /\ sheetModels \in RecordSeqs
    /\ opts \in OptLists
    /\ options = DefaultOptions
    /\ f = NewFile
    /\ sheetLinesCount = <<>>
    /\ idx = 1
    /\ pc = "start"
    /\ err = ""
    /\ out = "none"
    /\ coordCol = 1
    /\ coordRow = 1
    /\ coordRet = NoCell

\* WriteExcelSaveAs with fileName == ""
EmptyFileName ==
    /\ pc = "start"
    /\ pc' = "failed"
    /\ err' = ErrEmptyFileName
    /\ UNCHANGED <<sheetModels, opts, options, f, sheetLinesCount, idx, out>>
    /\ UNCHANGED coordVars

\* write: the default options, the options applied, NewFile, the empty counter
Start ==
    /\ pc = "start"
    /\ options' = ApplyOptions(opts, DefaultOptions)
    /\ f' = NewFile
    /\ sheetLinesCount' = <<>>
    /\ pc' = "records"
    /\ UNCHANGED <<sheetModels, opts, idx, err, out>>
    /\ UNCHANGED coordVars

\* ProcessRecord that goes on to the next record after an error
ProcessRecordKeepsGoing ==
    /\ pc = "records"
    /\ idx <= Len(sheetModels)
    /\ LET r == RangeBody(f, sheetLinesCount, sheetModels[idx], options)
       IN /\ f' = r.f
          /\ sheetLinesCount' = r.count
          /\ err' = r.err
          /\ pc' = "records"
          /\ idx' = idx + 1
    /\ UNCHANGED <<sheetModels, opts, options, out>>
    /\ UNCHANGED coordVars

\* one iteration of the range loop over sheetModels
ProcessRecord ==
    /\ pc = "records"
    /\ idx <= Len(sheetModels)
    /\ LET r == RangeBody(f, sheetLinesCount, sheetModels[idx], options)
       IN /\ f' = r.f
          /\ sheetLinesCount' = r.count
          /\ err' = r.err
          /\ pc' = IF r.err # "" THEN "failed" ELSE "records"
          /\ idx' = IF r.err # "" THEN idx ELSE idx + 1
    /\ UNCHANGED <<sheetModels, opts, options, out>>
    /\ UNCHANGED coordVars

\* after the loop: err := setNoDataSheetHeaders(f, options)
SetNoDataSheetHeaders ==
    /\ pc = "records"
    /\ idx > Len(sheetModels)
    /\ LET r == setNoDataSheetHeaders(f, options)
       IN /\ f' = r.f
          /\ err' = r.err
          /\ pc' = IF r.err # "" THEN "failed" ELSE "delete"
    /\ UNCHANGED <<sheetModels, opts, options, sheetLinesCount, idx, out>>
    /\ UNCHANGED coordVars

\* the deletion of the default sheet, and return f, nil
DeleteDefaultSheet ==
    /\ pc = "delete"
    /\ f' = DeleteDefault(f, sheetModels, options)
    /\ pc' = "returned"
    /\ UNCHANGED <<sheetModels, opts, options, sheetLinesCount, idx, err, out>>
    /\ UNCHANGED coordVars

\* f.SaveAs(fileName) or f.Write(buffer) on the file write returned
Serialize ==
    /\ pc = "returned"
    /\ \E api \in {"file", "buffer"} : out' = api
    /\ pc' = "done"
    /\ UNCHANGED <<sheetModels, opts, options, f, sheetLinesCount, idx, err>>
    /\ UNCHANGED coordVars

Next ==
    \/ EmptyFileName
    \/ Start
    \/ ProcessRecord
    \/ SetNoDataSheetHeaders
    \/ DeleteDefaultSheet
    \/ Serialize

Spec == Init /\ [][Next]_vars

(* ------------------------------------------------------------------ *)
(* Runs over one record with one field, for the field conversion:      *)
(* every field type and value below, under every option list below     *)
(* ------------------------------------------------------------------ *)

IntKinds == {"int", "int8", "int16", "int32", "int64"}
UintKinds == {"uint", "uint8", "uint16", "uint32", "uint64"}

\* the extreme values of a kind (int, int32, int64 and their unsigned
\* kinds: the extremes TLC's integers hold)
IntMin(kind) ==
    CASE kind = "int8" -> -128 [] kind = "int16" -> -32768 [] OTHER -> -2147483647
IntMax(kind) ==
    CASE kind = "int8" -> 127 [] kind = "int16" -> 32767 [] OTHER -> 2147483647
UintMax(kind) ==
    CASE kind = "uint8" -> 255 [] kind = "uint16" -> 65535 [] OTHER -> 2147483647

\* user-defined named types with a supported underlying kind
NamedTypes ==
    {Ty(0, "int", "excelorm.MyInt"), Ty(0, "uint8", "excelorm.MyByte"),
     Ty(0, "string", "excelorm.MyString"), Ty(0, "bool", "excelorm.MyBool"),
     Ty(0, "float64", "excelorm.MyFloat")}

SubStructType == Ty(0, "struct", "excelorm.subStruct")

\* field types outside the dispatch table
UnsupportedTypes ==
    {MapType, Ty(0, "slice", "[]int"), Ty(0, "array", "[2]int"), Ty(0, "chan", "chan int"),
     Ty(0, "func", "func()"), Ty(0, "interface", "interface {}"),
     Basic("complex64"), Basic("complex128"), Basic("uintptr"), Basic("unsafe.Pointer")}

BaseTypes ==
    {Basic(k) : k \in IntKinds \cup UintKinds \cup {"string", "bool", "float32", "float64"}}
        \cup {TimeType, SubStructType} \cup NamedTypes \cup UnsupportedTypes

Time1 == [Y |-> 2024, Mo |-> 1, D |-> 2, h |-> 15, mi |-> 4, s |-> 5]
Time2 == [Y |-> 987, Mo |-> 12, D |-> 31, h |-> 0, mi |-> 59, s |-> 10]

\* the values a field of a non-pointer type takes
BaseValues(t) ==
    CASE t.kind \in IntKinds -> {IntVal(IntMin(t.kind)), IntVal(0), IntVal(IntMax(t.kind))}
      [] t.kind \in UintKinds -> {IntVal(0), IntVal(UintMax(t.kind))}
      [] t.kind = "string" -> {StrVal(""), StrVal("Bar1")}
      [] t.kind = "bool" -> {BoolVal(TRUE), BoolVal(FALSE)}
      [] t.kind \in {"float32", "float64"} -> {IntVal(11), IntVal(-25), IntVal(0)}
      [] t = TimeType -> {TimeVal(Time1), TimeVal(Time2)}
      [] OTHER -> {NoVal}

\* types with two levels of indirection
DoublePtrBases == {Basic("int"), MapType, TimeType}

FieldValues ==
    UNION {{Val(t, v) : v \in BaseValues(t)} : t \in BaseTypes}
    \cup UNION {{Val(PtrTo(t), v) : v \in BaseValues(t)} \cup {NilAt(PtrTo(t), 0)} : t \in BaseTypes}
    \cup UNION {{Val(PtrTo(PtrTo(t)), v) : v \in BaseValues(t)}
                    \cup {NilAt(PtrTo(PtrTo(t)), 0), NilAt(PtrTo(PtrTo(t)), 1)} : t \in DoublePtrBases}

\* type T struct { F <type> `excel_header:"f"` } with SheetName "t"
OneField(v) == Model("struct", "t", <<Field("F", "f", v.typ)>>, <<v>>)

FieldOptLists ==
    {nul \o ias \o bv \o fp \o ff \o tl :
        nul \in {<<>>, <<WithIfNullValue("-")>>},
        ias \in {<<>>, <<WithIntegerAsString>>},
        bv \in {<<>>, <<WithBoolValueAs("yes", "no")>>},
        fp \in {<<>>, <<WithFloatPrecision(0)>>, <<WithFloatPrecision(1)>>},
        ff \in {<<>>, <<WithFloatFmt("e")>>},
        tl \in {<<>>, <<WithTimeFormatLayout("2006/01/02 15:04:05")>>}}

InitField ==
    /\ sheetModels \in {<<OneField(v)>> : v \in FieldValues}
    /\ opts \in FieldOptLists
    /\ options = DefaultOptions
    /\ f = NewFile
    /\ sheetLinesCount = <<>>
    /\ idx = 1
    /\ pc = "start"
    /\ err = ""
    /\ out = "none"
    /\ coordCol = 1
    /\ coordRow = 1
    /\ coordRet = NoCell

SpecField == InitField /\ [][Next]_vars

(* ------------------------------------------------------------------ *)
(* Properties of the run                                               *)
(* ------------------------------------------------------------------ *)

\* the option list holds the named option
Given(op) == \E i \in 1..Len(opts) : opts[i].op = op

\* the declared-header prototypes of the option list
Prototypes == UNION {{opts[i].hs[j] : j \in 1..Len(opts[i].hs)} : i \in 1..Len(opts)}

\* the categories of the dispatch table: the predeclared integer, string,
\* boolean and floating-point types and time.Time, behind any pointers
TableTypeNames ==
    IntKinds \cup UintKinds \cup {"string", "bool", "float32", "float64", "time.Time"}

\* a struct record with a sheet name and only fields of the dispatch table
ValidRecord(m) ==
    /\ m.shape = "struct"
    /\ m.sheet # ""
    /\ \A i \in 1..Len(m.fields) : m.fields[i].typ.tname \in TableTypeNames

\* a valid input: valid records, and no declared prototype is a nil pointer
ValidInput ==
    /\ \A i \in 1..Len(sheetModels) : ValidRecord(sheetModels[i])
    /\ \A p \in Prototypes : p.shape # "nilptr"

\* the options are resolved and the loop over the records has begun
Running == pc \in {"records", "delete", "returned", "done"}

\* records 1..idx-1 are appended
Appended == 1..(idx - 1)

\* record i is the Rank(i)-th record of its sheet
Rank(i) == Cardinality({j \in 1..i : sheetModels[j].sheet = sheetModels[i].sheet})

\* the first appended record of sheet S
First(S) == CHOOSE i \in Appended :
                /\ sheetModels[i].sheet = S
                /\ \A j \in Appended : sheetModels[j].sheet = S => i <= j

InputSheets == {sheetModels[i].sheet : i \in 1..Len(sheetModels)}
AppendedSheets == {sheetModels[i].sheet : i \in Appended}

CellAt(S, col, row, v) ==
    [sheet |-> S, axis |-> coordinatesToCellName(col, row).name, v |-> v]

\* the cells of field col of record i written at `row`
DataCell(i, col, row) ==
    CellAt(sheetModels[i].sheet, col, row, ConvertField(sheetModels[i], col, options).cell)

\* the data cells of the appended records, record i at row Rank(i) + shift;
\* `all` counts the fields tagged "-" in
DataCells(shift, all) ==
    UNION {{DataCell(i, c, Rank(i) + shift) :
                c \in {c \in 1..Len(sheetModels[i].fields) :
                            all \/ sheetModels[i].fields[c].tag # "-"}} : i \in Appended}

\* the header cells, in row 1, of the first record of every sheet with records
HeaderCells(all) ==
    UNION {{CellAt(S, c, 1, StringCell(IF sheetModels[First(S)].fields[c].tag = ""
                                       THEN sheetModels[First(S)].fields[c].name
                                       ELSE sheetModels[First(S)].fields[c].tag)) :
                c \in {c \in 1..Len(sheetModels[First(S)].fields) :
                            all \/ sheetModels[First(S)].fields[c].tag # "-"}} : S \in AppendedSheets}

\* the cells of the sheets the input names
InputSheetCells == {c \in f.cells : c.sheet \in InputSheets}

\* C1: with headers enabled and a valid input, write does not fail, and at
\* every point of the run each sheet of the input holds the header of its
\* first record in row 1, its k-th record in row k + 1, and nothing else,
\* however the records of the sheets are interleaved.
C1_HeaderThenRowsInInputOrder ==
    (~Given("WithHeadless") /\ ValidInput) =>
        /\ pc = "failed" => err = ErrEmptyFileName
        /\ Running =>
            /\ HeaderCells(FALSE) \cup DataCells(1, FALSE) \subseteq InputSheetCells
            /\ InputSheetCells \subseteq HeaderCells(TRUE) \cup DataCells(1, TRUE)

\* a finished run of three valid records, two sheets interleaved
C1_Witness ==
    /\ ~Given("WithHeadless")
    /\ ValidInput
    /\ pc = "done"
    /\ Len(sheetModels) = 3
    /\ sheetModels[1].sheet = sheetModels[3].sheet
    /\ sheetModels[1].sheet # sheetModels[2].sheet

\* C2: with WithHeadless and a valid input, the k-th record of a sheet is in
\* row k; while the records are processed the file holds data cells only,
\* and the sheets of the input hold nothing else afterwards.
C2_HeadlessRowsFromRowOne ==
    (Given("WithHeadless") /\ ValidInput) =>
        /\ pc = "failed" => err = ErrEmptyFileName
        /\ Running =>
            /\ DataCells(0, FALSE) \subseteq InputSheetCells
            /\ InputSheetCells \subseteq DataCells(0, TRUE)
        /\ pc = "records" => f.cells \subseteq DataCells(0, TRUE)

C2_Witness ==
    /\ Given("WithHeadless")
    /\ ValidInput
    /\ pc = "done"
    /\ Len(sheetModels) = 3
    /\ sheetModels[1].sheet = sheetModels[3].sheet
    /\ sheetModels[1].sheet # sheetModels[2].sheet
    /\ \E c \in f.cells : c.axis = "A1"

\* the loop is at record m
AtRecord(m) == pc = "records" /\ idx <= Len(sheetModels) /\ sheetModels[idx] = m

\* the step fails with e and leaves the file and the line counter as they were
FailsUntouched(e) ==
    /\ pc' = "failed"
    /\ err' = e
    /\ f' = f
    /\ sheetLinesCount' = sheetLinesCount

\* C3: a record whose sheet identifier is "" fails the run with "sheetModel
\* must have a sheet name"; no sheet is created, no cell written and no line
\* counter changed for it, also after valid records.
C3_EmptySheetIdentifier ==
    [][\A m \in Records :
            (AtRecord(m) /\ m.shape # "nil" /\ m.sheet = "") => FailsUntouched(ErrNoSheetName)]_vars

C3_Witness ==
    /\ pc = "failed"
    /\ err = ErrNoSheetName
    /\ idx = 3
    /\ Len(sheetModels) = 3
    /\ sheetModels[3].sheet = ""
    /\ f.cells # {}

\* C4: a nil record fails the run with "nil reference row append is not
\* allowed"; no sheet is created and no cell written for it.
C4_NilRecord ==
    [][AtRecord(NilModel) => FailsUntouched(ErrNilRow)]_vars

C4_Witness ==
    /\ pc = "failed"
    /\ err = ErrNilRow
    /\ idx = 2
    /\ Len(sheetModels) >= 2
    /\ sheetModels[2] = NilModel
    /\ f.cells # {}

\* C5: a record with a sheet identifier that is not a struct value fails the
\* run with "sheetModel must be struct" before any sheet is created or cell
\* written for it.
C5_UnsupportedRecordShape ==
    [][\A m \in Records :
            (AtRecord(m) /\ m.shape \notin {"nil", "struct"} /\ m.sheet # "")
                => FailsUntouched(ErrNotStruct)]_vars

C5_Witness ==
    /\ pc = "failed"
    /\ err = ErrNotStruct
    /\ idx <= Len(sheetModels)
    /\ sheetModels[idx] = Sheet4
    /\ "sheet4" \notin f.sheets

(* ------------------------------------------------------------------ *)
(* Properties of the field conversion (runs of SpecField: one record   *)
(* with one field F, so the field's coordinate is A2)                  *)
(* ------------------------------------------------------------------ *)

TheField == sheetModels[1].fields[1]
TheValue == sheetModels[1].vals[1]

\* the record was appended, or appending it failed
RecordDone == pc \in {"delete", "returned", "done"} \/ (pc = "records" /\ idx = 2)
RecordFailed == pc = "failed" /\ err # ErrEmptyFileName
Tried == RecordDone \/ RecordFailed

\* the values held at the field's coordinate
FieldCell == {c.v : c \in {c \in f.cells : c.sheet = "t" /\ c.axis = "A2"}}

\* the argument(s) of the last option of the list made by `op`
LastGiven(op) ==
    opts[CHOOSE i \in 1..Len(opts) :
            /\ opts[i].op = op
            /\ \A j \in 1..Len(opts) : opts[j].op = op => j <= i]

\* the kinds C6 lists
ListedKinds ==
    {"map", "slice", "array", "chan", "func", "interface", "complex64", "complex128",
     "uintptr", "unsafe.Pointer"}

\* C6: a field of a listed kind fails the run with "unsupported type <kind>"
\* ("unsupported type map" for a map), a nested struct that is not a
\* time.Time with "unsupported type <Go type name>".
C6_UnsupportedFieldType ==
    Tried =>
        /\ (TheField.typ.ptr = 0 /\ TheField.typ.kind \in ListedKinds) =>
                pc = "failed" /\ err = "unsupported type " \o TheField.typ.kind
        /\ TheField.typ = MapType => err = "unsupported type map"
        /\ (TheField.typ.ptr = 0 /\ TheField.typ.kind = "struct" /\ TheField.typ # TimeType) =>
                pc = "failed" /\ err = "unsupported type " \o TheField.typ.tname
        /\ TheField.typ = SubStructType => err = "unsupported type excelorm.subStruct"

C6_Witness ==
    /\ TheField.typ = Ty(0, "unsafe.Pointer", "unsafe.Pointer")
    /\ pc = "failed"
    /\ err = "unsupported type unsafe.Pointer"
    /\ "t" \in f.sheets

\* C7: a nil pointer field does not fail the record, and the cell at the
\* field's coordinate holds the null-display text: "" by default, the text
\* given to WithIfNullValue otherwise.
C7_NilPointerWritesNullText ==
    (Tried /\ TheField.typ.ptr > 0 /\ TheValue.present = 0) =>
        /\ pc # "failed"
        /\ FieldCell = {[t |-> "string", n |-> 0, b |-> FALSE,
                         s |-> IF Given("WithIfNullValue") THEN LastGiven("WithIfNullValue").s
                               ELSE ""]}

C7_Witness ==
    /\ pc = "done"
    /\ TheField.typ = PtrTo(TimeType)
    /\ TheValue.present = 0
    /\ FieldCell = {StringCell("-")}

\* the outcome of converting a field declared with the pointed-to type and
\* holding the pointed-to value
Direct == ConvertField(OneField(Indirect(TheValue)), 1, options)

\* C8: a non-nil pointer field gives what a non-pointer field holding the
\* pointed-to value gives under the same options: the same cell, or the
\* same error.
C8_PresentPointerAsPointee ==
    (Tried /\ TheField.typ.ptr > 0 /\ TheValue.present > 0) =>
        IF Direct.act = "err" THEN pc = "failed" /\ err = Direct.err
        ELSE /\ pc # "failed"
             /\ Direct.act = "set"
             /\ FieldCell = {Direct.cell}

C8_Witness ==
    /\ pc = "done"
    /\ TheField.typ = PtrTo(Basic("int8"))
    /\ TheValue.val.n = -128
    /\ Given("WithIntegerAsString")
    /\ FieldCell = {StringCell("-128")}

\* C9: a bool field is written as the true-text or the false-text of
\* WithBoolValueAs, and as the native bool without that option.
C9_BoolText ==
    (Tried /\ TheField.typ = Basic("bool")) =>
        /\ pc # "failed"
        /\ FieldCell =
            {IF Given("WithBoolValueAs")
             THEN [t |-> "string", n |-> 0, b |-> FALSE,
                   s |-> IF TheValue.val.b THEN LastGiven("WithBoolValueAs").s
                         ELSE LastGiven("WithBoolValueAs").s2]
             ELSE [t |-> "bool", n |-> 0, s |-> "", b |-> TheValue.val.b]}

C9_Witness ==
    /\ pc = "done"
    /\ TheField.typ = Basic("bool")
    /\ ~TheValue.val.b
    /\ FieldCell = {StringCell("no")}

\* the base-10 text of the integer values of the runs
Decimal(n) ==
    CASE n = -2147483647 -> "-2147483647"
      [] n = -32768 -> "-32768"
      [] n = -128 -> "-128"
      [] n = 0 -> "0"
      [] n = 127 -> "127"
      [] n = 255 -> "255"
      [] n = 32767 -> "32767"
      [] n = 65535 -> "65535"
      [] n = 2147483647 -> "2147483647"

\* C10: a field of a predeclared signed or unsigned integer type is written
\* as the number itself without WithIntegerAsString and as its base-10 text
\* with it.
C10_IntegerNativeOrText ==
    (Tried /\ TheField.typ.ptr = 0 /\ TheField.typ.tname \in IntKinds \cup UintKinds) =>
        /\ pc # "failed"
        /\ FieldCell =
            {IF Given("WithIntegerAsString")
             THEN [t |-> "string", n |-> 0, b |-> FALSE, s |-> Decimal(TheValue.val.n)]
             ELSE [t |-> TheField.typ.tname, n |-> TheValue.val.n, s |-> "", b |-> FALSE]}

C10_Witness ==
    /\ pc = "done"
    /\ TheField.typ = Basic("uint16")
    /\ FieldCell = {StringCell("65535")}

(* ------------------------------------------------------------------ *)
(* Headers, declared headers and the default sheet (runs of Spec)      *)
(* ------------------------------------------------------------------ *)

\* the values held at column c (a letter), row r of sheet S
ValuesAt(S, c, r) ==
    {x.v : x \in {x \in f.cells : x.sheet = S /\ x.axis = Letters[c] \o Itoa(r)}}

\* the cells of sheet S
SheetCells(S) == {x \in f.cells : x.sheet = S}

\* the run returned from write without an error
Succeeded == pc \in {"returned", "done"}

\* the prototypes of the resolved configuration: those of the last
\* WithSheetHeaders of the option list
DeclaredPrototypes ==
    IF Given("WithSheetHeaders")
    THEN {LastGiven("WithSheetHeaders").hs[j] : j \in 1..Len(LastGiven("WithSheetHeaders").hs)}
    ELSE {}

\* C11: with headers enabled, for every field of the first record of a sheet
\* whose tag is not "-", the cell of row 1 at the field's position holds the
\* excel_header tag when there is one and the field's declared name when
\* there is none (or an empty one), whatever records follow on the sheet.
C11_HeaderTextOverrideOrName ==
    ~Given("WithHeadless") =>
        \A S \in AppendedSheets :
            LET fields == sheetModels[First(S)].fields
            IN \A c \in 1..Len(fields) :
                    fields[c].tag # "-" =>
                        ValuesAt(S, c, 1) =
                            {[t |-> "string", n |-> 0, b |-> FALSE,
                              s |-> IF fields[c].tag = "" THEN fields[c].name ELSE fields[c].tag]}

\* a Foo (ID tagged "id", Name untagged) first on its sheet, a Bar after it
C11_Witness ==
    /\ pc = "done"
    /\ ~Given("WithHeadless")
    /\ Len(sheetModels) >= 2
    /\ sheetModels[1].fields = FooFields
    /\ sheetModels[2].fields = BarFields
    /\ ValuesAt("foo", 1, 1) = {StringCell("id")}
    /\ ValuesAt("foo", 2, 1) = {StringCell("Name")}

\* C12: a field tagged "-" is omitted from a sheet that receives records: no
\* cell is written at the field's column in any row of the sheet.
C12_SkipSentinelOmitted ==
    \A i \in Appended :
        \A c \in 1..Len(sheetModels[i].fields) :
            sheetModels[i].fields[c].tag = "-" =>
                \A r \in 1..(Len(sheetModels) + 1) : ValuesAt(sheetModels[i].sheet, c, r) = {}

\* C13: after a successful run every declared prototype whose sheet receives
\* no record has its sheet in the file, holding the header row of the
\* prototype (the fields not tagged "-") and nothing else, "Sheet1" included.
C13_DeclaredHeaderOnlySheet ==
    Succeeded =>
        \A p \in DeclaredPrototypes :
            p.sheet \notin InputSheets =>
                /\ p.sheet \in f.sheets
                /\ SheetCells(p.sheet) =
                        {[sheet |-> p.sheet, axis |-> Letters[c] \o "1",
                          v |-> [t |-> "string", n |-> 0, b |-> FALSE,
                                 s |-> IF p.fields[c].tag = "" THEN p.fields[c].name
                                       ELSE p.fields[c].tag]] :
                            c \in {c \in 1..Len(p.fields) : p.fields[c].tag # "-"}}

\* C14: with WithHeadless no header row is written to any sheet: after a
\* successful run the file holds the data cells of the records, from row 1,
\* and nothing else, also on the sheets of the declared prototypes.
C14_HeadlessNoHeaderAnywhere ==
    (Given("WithHeadless") /\ Succeeded) => f.cells \subseteq DataCells(0, TRUE)

\* C15: DeleteSheet is called after a successful run, on "Sheet1" only, and
\* exactly when no record and no declared prototype has the sheet name
\* "Sheet1"; the rows of the records of "Sheet1" are written into the sheet
\* NewFile made, which is never created anew and is kept.
C15_DefaultSheetDeletedIffUnused ==
    /\ ~Succeeded => f.deleted = {}
    /\ Succeeded =>
        /\ f.deleted \subseteq {"Sheet1"}
        /\ "Sheet1" \in f.deleted <=>
                /\ \A i \in 1..Len(sheetModels) : sheetModels[i].sheet # "Sheet1"
                /\ \A p \in DeclaredPrototypes : p.sheet # "Sheet1"
        /\ "Sheet1" \in InputSheets =>
                /\ "Sheet1" \in f.sheets
                /\ "Sheet1" \notin f.created
                /\ \A i \in 1..Len(sheetModels) :
                        sheetModels[i].sheet = "Sheet1" =>
                            \A c \in 1..Len(sheetModels[i].fields) :
                                DataCell(i, c, Rank(i) + (IF Given("WithHeadless") THEN 0 ELSE 1))
                                    \in f.cells

\* records on "Sheet1" and on another sheet: the default sheet is kept
C15_Witness ==
    /\ pc = "done"
    /\ Len(sheetModels) = 3
    /\ sheetModels[1].sheet = "foo"
    /\ sheetModels[2].sheet = "Sheet1"
    /\ sheetModels[3].sheet = "Sheet1"
    /\ f.deleted = {}
    /\ f.created = {"foo"}
    /\ ValuesAt("Sheet1", 2, 3) # {}

(* ------------------------------------------------------------------ *)
(* coordinatesToCellName on its own: one call per run, on every column *)
(* and row below                                                       *)
(* ------------------------------------------------------------------ *)

CoordCols ==
    (-1..MaxCol) \cup {51, 52, 53, 676, 677, 678, 701, 702, 703, 704, 16383, 16384, 16385, 16386}
CoordRows == (-1..MaxRow) \cup {99, 100, 101, 1048575, 1048576, 1048577}

InitCoord ==
    /\ sheetModels = <<>>
    /\ opts = <<>>
    /\ options = DefaultOptions
    /\ f = NewFile
    /\ sheetLinesCount = <<>>
    /\ idx = 1
    /\ pc = "coord"
    /\ err = ""
    /\ out = "none"
    /\ coordCol \in CoordCols
    /\ coordRow \in CoordRows
    /\ coordRet = NoCell

\* cellName, err := coordinatesToCellName(col, row)
CallCoordinatesToCellName ==
    /\ pc = "coord"
    /\ coordRet' = coordinatesToCellName(coordCol, coordRow)
    /\ pc' = "coorddone"
    /\ UNCHANGED <<sheetModels, opts, options, f, sheetLinesCount, idx, err, out, coordCol, coordRow>>

NextCoord == CallCoordinatesToCellName

SpecCoord == InitCoord /\ [][NextCoord]_vars

\* the domain of the coordinates
InDomain(c, r) == c \in 1..16384 /\ r \in 1..1048576

\* bijective base 26 by length: the names of one letter are the columns
\* 1..26, those of two letters the columns 27..702 in dictionary order,
\* those of three letters the columns from 703 on in dictionary order
RefColumn(n) ==
    IF n <= 26 THEN Letters[n]
    ELSE IF n <= 702
    THEN Letters[((n - 27) \div 26) + 1] \o Letters[((n - 27) % 26) + 1]
    ELSE Letters[((n - 703) \div 676) + 1] \o Letters[(((n - 703) \div 26) % 26) + 1]
            \o Letters[((n - 703) % 26) + 1]

\* the decimal digits of n > 0 from the most significant one
RECURSIVE RefDigitsFrom(_, _)
RefDigitsFrom(n, p) ==
    IF p = 0 THEN "" ELSE Digits[((n \div p) % 10) + 1] \o RefDigitsFrom(n, p \div 10)

RefDecimal(n) == RefDigitsFrom(n, Pow10(NumDigits(n) - 1))

\* C16: on a column in 1..16384 and a row in 1..1048576 the translation
\* succeeds, gives the bijective base-26 name of the column followed by
\* the decimal row, and gives no other pair of the domain the same address;
\* (1,1) is "A1", (26,1) "Z1", (27,1) "AA1", and (16384,1048576) succeeds.
C16_CoordinateTranslation ==
    (pc = "coorddone" /\ InDomain(coordCol, coordRow)) =>
        /\ coordRet.err = ""
        /\ coordRet.name = RefColumn(coordCol) \o RefDecimal(coordRow)
        /\ \A c2 \in CoordCols, r2 \in CoordRows :
                (InDomain(c2, r2) /\ coordinatesToCellName(c2, r2).name = coordRet.name)
                    => (c2 = coordCol /\ r2 = coordRow)
        /\ (coordCol = 1 /\ coordRow = 1) => coordRet.name = "A1"
        /\ (coordCol = 26 /\ coordRow = 1) => coordRet.name = "Z1"
        /\ (coordCol = 27 /\ coordRow = 1) => coordRet.name = "AA1"

C16_Witness ==
    /\ pc = "coorddone"
    /\ coordCol = 16384
    /\ coordRow = 1048576
    /\ coordRet = [name |-> "XFD1048576", err |-> ""]

\* C17: on a column outside 1..16384 or a row outside 1..1048576 the
\* translation returns an error, and the address returned with it is "".
C17_OutOfDomainNoPartialAddress ==
    (pc = "coorddone" /\ ~InDomain(coordCol, coordRow)) =>
        /\ coordRet.err # ""
        /\ coordRet.name = ""

(* ------------------------------------------------------------------ *)
(* The options: runs of one record under every list of at most MaxOpts *)
(* of the options below                                                *)
(* ------------------------------------------------------------------ *)

OptionPool ==
    {WithTimeFormatLayout("2006/01/02 15:04:05"), WithTimeFormatLayout("15:04"),
     WithFloatPrecision(0), WithFloatPrecision(1),
     WithFloatFmt("e"), WithFloatFmt("f"),
     WithIfNullValue("-"), WithIfNullValue("null"),
     WithSheetHeaders(<<Only>>), WithSheetHeaders(<<Def("", 0), PtrFoo>>), WithSheetHeaders(<<>>),
     WithBoolValueAs("yes", "no"), WithBoolValueAs("Y", "N"),
     WithIntegerAsString, WithHeadless}

OptionLists == UNION {[1..n -> OptionPool] : n \in 0..MaxOpts}

InitOptions ==
    /\ sheetModels = <<Foo(1, NilName)>>
    /\ opts \in OptionLists
    /\ options = DefaultOptions
    /\ f = NewFile
    /\ sheetLinesCount = <<>>
    /\ idx = 1
    /\ pc = "start"
    /\ err = ""
    /\ out = "none"
    /\ coordCol = 1
    /\ coordRow = 1
    /\ coordRet = NoCell

SpecOptions == InitOptions /\ [][Next]_vars

\* C18: with an empty option list the options of the run are the default:
\* time layout "2006-01-02 15:04:05", float precision 2, float format 'f',
\* null text "", no true text and no false text, integers not as text,
\* headers not suppressed, no declared prototypes.
C18_DefaultConfiguration ==
    (Running /\ opts = <<>>) =>
        options = [timeFormatLayout |-> "2006-01-02 15:04:05",
                   floatPrecision   |-> 2,
                   floatFmt         |-> "f",
                   ifNullValue      |-> "",
                   sheetHeaders     |-> <<>>,
                   trueValue        |-> [nil |-> TRUE, s |-> ""],
                   falseValue       |-> [nil |-> TRUE, s |-> ""],
                   integerAsString  |-> FALSE,
                   headless         |-> FALSE]

C18_Witness ==
    /\ pc = "done"
    /\ opts = <<>>
    /\ f.cells # {}
    /\ options.floatPrecision = 2
    /\ options.floatFmt = "f"

\* C19: every field of the resolved options holds what the last option of
\* the list that sets it gave (the prototypes of the last WithSheetHeaders
\* alone), and the default when no option of the list sets it.
C19_LastOverrideWins ==
    Running =>
        options =
            [timeFormatLayout |-> IF Given("WithTimeFormatLayout")
                                  THEN LastGiven("WithTimeFormatLayout").s
                                  ELSE "2006-01-02 15:04:05",
             floatPrecision   |-> IF Given("WithFloatPrecision")
                                  THEN LastGiven("WithFloatPrecision").n ELSE 2,
             floatFmt         |-> IF Given("WithFloatFmt") THEN LastGiven("WithFloatFmt").s ELSE "f",
             ifNullValue      |-> IF Given("WithIfNullValue") THEN LastGiven("WithIfNullValue").s ELSE "",
             sheetHeaders     |-> IF Given("WithSheetHeaders")
                                  THEN LastGiven("WithSheetHeaders").hs ELSE <<>>,
             trueValue        |-> IF Given("WithBoolValueAs")
                                  THEN [nil |-> FALSE, s |-> LastGiven("WithBoolValueAs").s]
                                  ELSE [nil |-> TRUE, s |-> ""],
             falseValue       |-> IF Given("WithBoolValueAs")
                                  THEN [nil |-> FALSE, s |-> LastGiven("WithBoolValueAs").s2]
                                  ELSE [nil |-> TRUE, s |-> ""],
             integerAsString  |-> Given("WithIntegerAsString"),
             headless         |-> Given("WithHeadless")]

\* two WithSheetHeaders and another option between them
C19_Witness ==
    /\ pc = "done"
    /\ Len(opts) = 3
    /\ opts[1] = WithSheetHeaders(<<Def("", 0), PtrFoo>>)
    /\ opts[2] = WithIfNullValue("null")
    /\ opts[3] = WithSheetHeaders(<<Only>>)
    /\ options.sheetHeaders = <<Only>>
    /\ options.ifNullValue = "null"
    /\ options.floatPrecision = 2

(* ------------------------------------------------------------------ *)
(* Errors (runs of Spec)                                               *)
(* ------------------------------------------------------------------ *)

\* the cells records 1..k can have written: on the sheet of a record, in
\* the columns of its fields, down to the row of the record
WrittenUpTo(k) ==
    UNION {{[sheet |-> sheetModels[i].sheet, axis |-> Letters[c] \o Itoa(r)] :
                c \in 1..Len(sheetModels[i].fields), r \in 1..(Rank(i) + 1)} : i \in 1..k}

\* C20: a step of the loop that ends with an error on record k ends the
\* run: the loop stays at k, the file holds cells of the records up to k
\* only, no sheet of a declared prototype was created, DeleteSheet was not
\* called, nothing is serialized, and no step follows a failure.
C20_FailureStopsTheRun ==
    [][/\ pc # "failed"
       /\ (pc = "records" /\ idx <= Len(sheetModels) /\ err' # "") =>
            /\ pc' = "failed"
            /\ idx' = idx
            /\ out' = "none"
            /\ f'.deleted = {}
            /\ f'.created \subseteq {sheetModels[i].sheet : i \in 1..idx}
            /\ {[sheet |-> x.sheet, axis |-> x.axis] : x \in f'.cells} \subseteq WrittenUpTo(idx)]_vars

\* the second of three records fails on its map field, after its first cell
C20_Witness ==
    /\ pc = "failed"
    /\ err = "unsupported type map"
    /\ Len(sheetModels) = 3
    /\ idx = 2
    /\ sheetModels[1].sheet = "foo"
    /\ Given("WithSheetHeaders")
    /\ ValuesAt("sheet6", 1, 2) # {}
    /\ f.sheets = {"Sheet1", "foo", "sheet6"}
    /\ out = "none"

(* ------------------------------------------------------------------ *)
(* The order of the writes, the line counter and the columns (runs of  *)
(* Spec)                                                               *)
(* ------------------------------------------------------------------ *)

\* the addresses of row r
RowAxes(r) == {Letters[c] \o Itoa(r) : c \in 1..Len(Letters)}

\* the positions, in the order of the SetCellValue calls, of the calls on
\* row r of sheet S
CallsAt(S, r) ==
    {k \in 1..Len(f.calls) : f.calls[k].sheet = S /\ f.calls[k].axis \in RowAxes(r)}

\* C21: with headers enabled, at every point of the run, row 1 of a sheet
\* with records was written by exactly one SetCellValue call per field of
\* the sheet's first record, with that field's header text, and each of
\* these calls came before every call on another row of the sheet: no
\* later record and no declared prototype wrote to row 1.
C21_HeaderWrittenOnceFirst ==
    ~Given("WithHeadless") =>
        \A S \in AppendedSheets :
            LET fields == sheetModels[First(S)].fields
            IN /\ Cardinality(CallsAt(S, 1)) = Len(fields)
               /\ \A c \in 1..Len(fields) :
                    \E k \in CallsAt(S, 1) :
                        /\ f.calls[k].axis = Letters[c] \o "1"
                        /\ f.calls[k].v.s = IF fields[c].tag = "" THEN fields[c].name
                                            ELSE fields[c].tag
               /\ \A k \in CallsAt(S, 1) :
                    \A m \in 1..Len(f.calls) :
                        (f.calls[m].sheet = S /\ m \notin CallsAt(S, 1)) => k < m

\* a Foo, then a record of another sheet, then a Bar on the Foo's sheet,
\* and a declared prototype for that sheet
C21_Witness ==
    /\ pc = "done"
    /\ ~Given("WithHeadless")
    /\ PtrFoo \in DeclaredPrototypes
    /\ Len(sheetModels) = 3
    /\ sheetModels[1].fields = FooFields
    /\ sheetModels[2].sheet = "Sheet1"
    /\ sheetModels[3].fields = BarFields
    /\ Cardinality(CallsAt("foo", 1)) = 2
    /\ CallsAt("foo", 3) # {}

\* the rows of sheet S that hold a cell
RowsOf(S) ==
    {r \in 1..(Len(sheetModels) + 2) : \E x \in SheetCells(S) : x.axis \in RowAxes(r)}

\* the number of records of sheet S processed so far
ProcessedOn(S) == Cardinality({i \in Appended : sheetModels[i].sheet = S})

\* the sheet names of the run: of the records, of the counter, of the file
RunSheets == InputSheets \cup f.sheets \cup DOMAIN sheetLinesCount

\* between two records the counter of S is the number of rows of S
LinesCounted ==
    pc = "records" =>
        \A S \in RunSheets :
            /\ Count(sheetLinesCount, S) =
                    IF ProcessedOn(S) = 0 THEN 0
                    ELSE ProcessedOn(S) + (IF Given("WithHeadless") THEN 0 ELSE 1)
            /\ RowsOf(S) = 1..Count(sheetLinesCount, S)

\* a step changes the counter of S only by raising it, in a step that
\* processes a record of S without an error
CounterStep ==
    \A S \in RunSheets :
        /\ Count(sheetLinesCount', S) >= Count(sheetLinesCount, S)
        /\ Count(sheetLinesCount', S) # Count(sheetLinesCount, S) =>
                /\ pc = "records"
                /\ idx <= Len(sheetModels)
                /\ sheetModels[idx].sheet = S
                /\ err' = ""
                /\ idx' = idx + 1

\* C22: between two records the line counter of every sheet S is the number
\* of rows written to S: 0 before the first record of S, then the number of
\* records of S processed plus 1 with headers and that number when
\* headless, and the rows of S that hold cells are the rows 1..counter; the
\* counter never decreases and changes only when a record of S is
\* processed without an error.
C22_LineCounterIsRowsWritten == [](LinesCounted) /\ [][CounterStep]_vars

\* two records on one sheet and one on another, with headers
C22_Witness ==
    /\ pc = "records"
    /\ idx = 4
    /\ ~Given("WithHeadless")
    /\ Count(sheetLinesCount, "foo") = 3
    /\ Count(sheetLinesCount, "Sheet1") = 2
    /\ RowsOf("foo") = {1, 2, 3}

\* the SetCellValue calls on row r of sheet S, in the order made
CallSeq(S, r) ==
    LET OnRow(x) == x.sheet = S /\ x.axis \in RowAxes(r)
    IN SelectSeq(f.calls, OnRow)

\* 0 in a headless run, 1 otherwise: the rows the header takes
HeaderRows == IF Given("WithHeadless") THEN 0 ELSE 1

\* C23: for every processed record, the calls that wrote its row are one per
\* field, in declared order, the call for the field at position i on
\* column i with that field's value; and with headers the calls that wrote
\* row 1 of its sheet are one per field of the sheet's first record, in
\* declared order, the call for position i on column i. A field's header
\* column is its data column, and no field is moved or dropped.
C23_FieldPositionIsColumn ==
    \A i \in Appended :
        LET S == sheetModels[i].sheet
            row == Rank(i) + HeaderRows
            first == sheetModels[First(S)].fields
        IN /\ CallSeq(S, row) =
                [c \in 1..Len(sheetModels[i].fields) |->
                    [sheet |-> S, axis |-> Letters[c] \o Itoa(row),
                     v |-> ConvertField(sheetModels[i], c, options).cell]]
           /\ ~Given("WithHeadless") =>
                CallSeq(S, 1) =
                    [c \in 1..Len(first) |->
                        [sheet |-> S, axis |-> Letters[c] \o "1",
                         v |-> [t |-> "string", n |-> 0, b |-> FALSE,
                                s |-> IF first[c].tag = "" THEN first[c].name ELSE first[c].tag]]]

\* Foo{ID: -7, Name: &"x"} first on its sheet: id and -7 in column A, Name
\* and x in column B
C23_Witness ==
    /\ pc = "done"
    /\ Len(sheetModels) >= 2
    /\ sheetModels[1] = Foo(-7, Name("x"))
    /\ ValuesAt("foo", 1, 1) = {StringCell("id")}
    /\ ValuesAt("foo", 1, 2) = {[t |-> "int64", n |-> -7, s |-> "", b |-> FALSE]}
    /\ ValuesAt("foo", 2, 1) = {StringCell("Name")}
    /\ ValuesAt("foo", 2, 2) = {StringCell("x")}

(* ------------------------------------------------------------------ *)
(* Pointers and named types in the field conversion (runs of           *)
(* SpecField)                                                          *)
(* ------------------------------------------------------------------ *)

\* the conversion of the field of the run
Converted == ConvertField(sheetModels[1], 1, options)

CallsOn(file, S) ==
    LET OnSheet(x) == x.sheet = S
    IN SelectSeq(file.calls, OnSheet)

\* the NewSheet calls made for sheet S
NewSheetCallsFor(file, S) ==
    LET Named(x) == x = S
    IN SelectSeq(file.newSheetCalls, Named)

\* C25: the step after the last record (setNoDataSheetHeaders) makes no
\* NewSheet call and no SetCellValue call for the sheet of a declared
\* prototype that received a record, and leaves the cells of that sheet as
\* they are, with and without WithHeadless.
C25_PrototypeOfDataSheetIsSkipped ==
    [][(pc = "records" /\ idx > Len(sheetModels)) =>
            \A j \in 1..Len(options.sheetHeaders) :
                LET S == options.sheetHeaders[j].sheet
                IN S \in InputSheets =>
                    /\ NewSheetCallsFor(f', S) = NewSheetCallsFor(f, S)
                    /\ CallsOn(f', S) = CallsOn(f, S)
                    /\ {x \in f'.cells : x.sheet = S} = SheetCells(S)
                    /\ f'.sheets \cap {S} = f.sheets \cap {S}]_vars

\* a headless run with a record on the sheet of the prototype &Foo{}, whose
\* row 1 still holds the record after the step created the sheet "only"
C25_Witness ==
    /\ pc = "delete"
    /\ Given("WithHeadless")
    /\ PtrFoo \in DeclaredPrototypes
    /\ "foo" \in InputSheets
    /\ "only" \in f.created
    /\ ValuesAt("foo", 1, 1) = {[t |-> "int64", n |-> 1, s |-> "", b |-> FALSE]}
    /\ Len(CallsOn(f, "only")) = 2

\* C26: no NewSheet call and no SetCellValue call is made with the sheet
\* name "", for records and for declared prototypes.
C26_NoCallWithEmptySheetName ==
    /\ \A k \in 1..Len(f.newSheetCalls) : f.newSheetCalls[k] # ""
    /\ \A k \in 1..Len(f.calls) : f.calls[k].sheet # ""

\* no record in pointer form was appended
NoPointerAppended == \A i \in Appended : sheetModels[i].shape = "struct"

\* a declared prototype in pointer form on a sheet without records gets
\* the header row of the struct it points to
PointerPrototypeAccepted ==
    (Succeeded /\ PtrFoo \in DeclaredPrototypes /\ "foo" \notin InputSheets) =>
        CallsOn(f, "foo") =
            <<[sheet |-> "foo", axis |-> "A1", v |-> StringCell("id")],
              [sheet |-> "foo", axis |-> "B1", v |-> StringCell("Name")]>>

\* C27: a record that is a non-nil pointer to a struct fails the run with
\* "sheetModel must be struct" and leaves the file as it was, so appendRow
\* is never applied to a pointer by write; a declared prototype that is a
\* pointer to a struct is accepted, and its sheet gets the struct's headers.
C27_PointerRecordRejected ==
    /\ [](NoPointerAppended /\ PointerPrototypeAccepted)
    /\ [][\A m \in Records :
                (AtRecord(m) /\ m.shape = "ptr") => FailsUntouched(ErrNotStruct)]_vars

\* &Foo{} as the second record, and as a declared prototype of the run
C27_Witness ==
    /\ pc = "failed"
    /\ err = ErrNotStruct
    /\ idx = 2
    /\ Len(sheetModels) >= 2
    /\ sheetModels[1].sheet = "Sheet1"
    /\ sheetModels[2] = PtrFoo
    /\ PtrFoo \in DeclaredPrototypes
    /\ f.sheets = {"Sheet1"}
    /\ f.cells # {}

(* ------------------------------------------------------------------ *)
(* Named types and pointers to unsupported types (runs of SpecField)   *)
(* ------------------------------------------------------------------ *)

\* the type the field's pointers lead to
BaseType == [TheField.typ EXCEPT !.ptr = 0]

\* no pointer on the way to the field's value is nil
FullyPresent == TheValue.present = TheField.typ.ptr

\* a named type over an integer, unsigned, string, boolean or float kind
NamedOverSupportedKind(ty) ==
    /\ ty.kind \in IntKinds \cup UintKinds \cup {"string", "bool", "float32", "float64"}
    /\ ty.tname # ty.kind

\* C28: a field whose type is a named type over an integer, unsigned,
\* string, boolean or floating-point kind (directly or behind non-nil
\* pointers) fails the record with "unsupported type <Go type name>"; no
\* cell is written for it.
C28_NamedTypeUnsupported ==
    (Tried /\ NamedOverSupportedKind(BaseType) /\ FullyPresent) =>
        /\ pc = "failed"
        /\ err = "unsupported type " \o BaseType.tname
        /\ FieldCell = {}
        /\ BaseType.tname = "excelorm.MyInt" => err = "unsupported type excelorm.MyInt"

\* type MyFloat float64: the header is written, then the field fails
C28_Witness ==
    /\ pc = "failed"
    /\ TheField.typ = Ty(0, "float64", "excelorm.MyFloat")
    /\ err = "unsupported type excelorm.MyFloat"
    /\ ValuesAt("t", 1, 1) = {StringCell("f")}
    /\ FieldCell = {}

\* C29: for a field that is a pointer to a type outside the dispatch table
\* (a map, slice, array, chan, func, interface, complex, uintptr,
\* unsafe.Pointer or nested struct) the value decides: with a nil pointer
\* on the way the null text is written and the record succeeds, with every
\* pointer set the run fails with "unsupported type" and the kind (the
\* type name for a struct).
C29_PointerToUnsupportedByValue ==
    (Tried /\ TheField.typ.ptr >= 1 /\ BaseType \in UnsupportedTypes \cup {SubStructType}) =>
        IF FullyPresent
        THEN /\ pc = "failed"
             /\ err = "unsupported type "
                        \o (IF BaseType.kind = "struct" THEN BaseType.tname ELSE BaseType.kind)
        ELSE /\ pc # "failed"
             /\ FieldCell = {[t |-> "string", n |-> 0, b |-> FALSE,
                              s |-> IF Given("WithIfNullValue")
                                    THEN LastGiven("WithIfNullValue").s ELSE ""]}

\* a nil *map[string]string field under WithIfNullValue("-")
C29_Witness ==
    /\ pc = "done"
    /\ TheField.typ = PtrTo(MapType)
    /\ TheValue.present = 0
    /\ FieldCell = {StringCell("-")}

====
